---- MODULE Spec2Model ----
(***************************************************************************)
(* A model of the TrackingStateMachine engine: TrackingState.track,        *)
(* TrackingState._validated_item and TrackingStateMachine.transition with  *)
(* its registries.  Host State classes (the generators behind _track and   *)
(* behind a transition method, and the item types) are not part of the     *)
(* engine; they are modelled after the contract the specification gives.   *)
(***************************************************************************)
EXTENDS Integers, Sequences, FiniteSets, TLC

\* ------------------------------------------------------------------ bounds
\* Item identifiers (and parameter values) range over 1..MaxId.
MaxId == 1

Ids == 1..MaxId

\* ------------------------------------------------------------------ values
\* Python's None as an attribute / default value.
None == -1

\* A resolved attribute value.
Val(v) == [tp |-> FALSE, name |-> "", value |-> v]

\* TransitionParameter.__init__: self.value = value if value else None
\* (a falsy default such as 0 is stored as None).
TransitionParameter(name, value) ==
    [tp |-> TRUE, name |-> name, value |-> IF value # None /\ value # 0 THEN value ELSE None]

\* isinstance(v, TransitionParameter)
IsTransitionParameter(v) == v.tp

\* The empty dict.
EmptyDict == [k \in {} |-> None]

\* dict.update({k: v})
DictUpdate(d, k, v) == [x \in (DOMAIN d) \cup {k} |-> IF x = k THEN v ELSE d[x]]

\* ---------------------------------------------------------- host item types
\* Validation predicates a host attaches to its item types.
Predicate(f, attrs) ==
    CASE f = "has_id" ->
            "id" \in DOMAIN attrs /\ ~IsTransitionParameter(attrs["id"]) /\ attrs["id"].value \in Ids
      [] f = "resolved" ->
            \A k \in DOMAIN attrs : IsTransitionParameter(attrs[k]) => attrs[k].value # None
      [] OTHER -> FALSE

\* TrackingItem.validate: reduce(operator.and_, map(f(self), validations), True)
RECURSIVE validate_from(_, _, _)
validate_from(validations, attrs, i) ==
    IF i > Len(validations) THEN TRUE
    ELSE Predicate(validations[i], attrs) /\ validate_from(validations, attrs, i + 1)

\* any() in place of all(): one true predicate is enough, none is a failure.
validate_any(validations, attrs) ==
    \E i \in 1..Len(validations) : Predicate(validations[i], attrs)

validate(validations, attrs) == validate_from(validations, attrs, 1)

\* The item returned by _validated_item, or Python's None (ok = FALSE).
NoItem == [ok |-> FALSE, attrs |-> EmptyDict]

Item(attrs) == [ok |-> TRUE, attrs |-> attrs]

\* ------------------------------------------------------------ host States
\* The host's State objects: "pending" and "shipped" follow the specification's
\* example (ship: pending -> shipped); "held" is a State whose sequences yield
\* one more result after the gating result.
Objs == {"o1", "o2", "o3"}

\* Every TrackingState the host has built: o4 is a second State constructed
\* with the name "pending"; it tracks nothing and defines no transition method.
HostStates == Objs \cup {"o4"}

\* TrackingState.__init__: self.name
StateName(o) ==
    CASE o \in {"o1", "o4"} -> "pending" [] o = "o2" -> "shipped" [] OTHER -> "held"

StateNames == {StateName(o) : o \in Objs}

\* TrackingState.__init__: self.item_type, given by the predicates it attaches.
\* o5 and o6 are States whose item types attach no predicate, and one that does
\* not look at the id.
item_type(o) ==
    CASE o = "o3" -> <<"has_id", "resolved">>
      [] o = "o5" -> <<>>
      [] o = "o6" -> <<"resolved">>
      [] OTHER -> <<"has_id">>

\* What getattr(state, name) is on a host State: a method (callable), a plain
\* attribute (not callable), or missing.
\* Every State has the plain attribute `name` that __init__ sets; "ship" is the
\* transition method of pending and held, "restock" an operation of shipped.
HostAttr(o, name) ==
    CASE name = "ship" /\ o \in {"o1", "o3"} -> "method"
      [] name = "restock" /\ o = "o2" -> "method"
      [] name = "name" -> "attr"
      [] OTHER -> "missing"

\* Number of results a host sequence yields after its gating result.
Residual(o) == IF o = "o3" THEN 1 ELSE 0

\* TransitionValidationResult.__init__ and add_parameter
Result(success, message, parameters) ==
    [success |-> success, message |-> message, parameters |-> parameters]

\* TransitionValidationResult.succeeded: self.success is True
succeeded(validation) == validation.success = TRUE

\* Steps of a generator body: a yield of a result, or the store mutation.
Yield(r) == [k |-> "yield", r |-> r, o |-> "", eff |-> "", id |-> 0]

Commit(o, eff, id) == [k |-> "commit", r |-> Result(TRUE, "", EmptyDict), o |-> o, eff |-> eff, id |-> id]

\* n further results, successful or not.
RECURSIVE Residuals(_, _)
Residuals(n, success) ==
    IF n = 0 THEN <<>>
    ELSE <<Yield(Result(success, IF success THEN "" ELSE "late failure", EmptyDict))>>
         \o Residuals(n - 1, success)

\* The id a host files an item under (None for an item without one).
ItemId(item) == IF "id" \in DOMAIN item.attrs THEN item.attrs["id"].value ELSE None

ParamNames == {"p", "q"}

\* The parameters a from-State emits with its gating result: the item's own
\* p and q attributes, when it has them.
Emitted(item) ==
    [n \in ParamNames \cap DOMAIN item.attrs |-> item.attrs[n].value]

\* A host transition method (here: ship), as the body of its generator: the
\* gating result, any further (unsuccessful) results, then the removal of the item.
HostTransition(o, item, st) ==
    IF ItemId(item) \notin st[o]
    THEN <<Yield(Result(FALSE, "not tracked", EmptyDict))>>
    ELSE <<Yield(Result(TRUE, "", Emitted(item)))>> \o Residuals(Residual(o), FALSE)
         \o <<Commit(o, "remove", ItemId(item))>>

\* A host _track, as the body of its generator: the gating result, any further
\* results, then the insertion of the item.
HostTrack(o, item, st) ==
    IF ItemId(item) \in st[o]
    THEN <<Yield(Result(FALSE, "already tracked", EmptyDict))>>
    ELSE <<Yield(Result(TRUE, "", EmptyDict))>> \o Residuals(Residual(o), TRUE)
         \o <<Commit(o, "insert", ItemId(item))>>

\* A host quantity(): the number of items held.
quantity(o, st) == Cardinality(st[o])

\* A generator object: its body and how far it has run.
Generator(steps) == [steps |-> steps, pc |-> 0]

ApplyCommit(st, step) ==
    [st EXCEPT ![step.o] = IF step.eff = "insert" THEN @ \cup {step.id} ELSE @ \ {step.id}]

\* next(generator): run the body up to its next yield or to its end
\* (StopIteration), performing the store mutations passed on the way.
RECURSIVE next(_, _, _)
next(g, st, commits) ==
    IF g.pc >= Len(g.steps)
    THEN [gen |-> g, store |-> st, stop |-> TRUE,
          value |-> Result(TRUE, "", EmptyDict), commits |-> commits]
    ELSE LET step == g.steps[g.pc + 1]
             g1 == [g EXCEPT !.pc = @ + 1]
         IN IF step.k = "yield"
            THEN [gen |-> g1, store |-> st, stop |-> FALSE, value |-> step.r, commits |-> commits]
            ELSE next(g1, ApplyCommit(st, step), commits + 1)

\* ------------------------------------------------- TrackingState (engine)
\* The iteration order of a dict: the keys of d in the order `order` gives them.
IterKeys(d, order) == SelectSeq(order, LAMBDA k : k \in DOMAIN d)

\* {v.name: k for k, v in item_dict.iteritems() if isinstance(v, TransitionParameter)}
\* built in iteration order: a later key of the same name replaces an earlier one.
RECURSIVE unvalidated_params_from(_, _, _, _)
unvalidated_params_from(item_dict, keys, i, acc) ==
    IF i > Len(keys) THEN acc
    ELSE LET k == keys[i]
             v == item_dict[k]
         IN unvalidated_params_from(item_dict, keys, i + 1,
                IF IsTransitionParameter(v) THEN DictUpdate(acc, v.name, k) ELSE acc)

unvalidated_params(item_dict, korder) ==
    unvalidated_params_from(item_dict, IterKeys(item_dict, korder), 1, EmptyDict)

\* for name, value in parameters.iteritems():
\*     item_dict.update({unvalidated_params[name]: value})
\* A name no placeholder declares raises KeyError, after the updates made so far.
RECURSIVE substitute(_, _, _, _, _)
substitute(item_dict, parameters, names, i, unvalidated) ==
    IF i > Len(names) THEN [dict |-> item_dict, raised |-> ""]
    ELSE LET name == names[i]
         IN IF name \notin DOMAIN unvalidated
            THEN [dict |-> item_dict, raised |-> "KeyError"]
            ELSE substitute(DictUpdate(item_dict, unvalidated[name], Val(parameters[name])),
                            parameters, names, i + 1, unvalidated)

\* TrackingState._validated_item: the caller's mapping is updated in place,
\* then given to the item type; the item is returned only if it validates.
validated_item(o, item_dict, parameters, korder, porder) ==
    LET sub == substitute(item_dict, parameters, IterKeys(parameters, porder), 1,
                          unvalidated_params(item_dict, korder))
    IN IF sub.raised # ""
       THEN [dict |-> sub.dict, raised |-> sub.raised, built |-> FALSE, item |-> NoItem]
       ELSE [dict |-> sub.dict, raised |-> "", built |-> TRUE,
             item |-> IF validate(item_type(o), sub.dict) THEN Item(sub.dict) ELSE NoItem]

\* The test for None inverted: True if dry_run is None else False
track_dry_run_inverted(dry_run) == dry_run = "None"

\* track's reading of its dry_run argument: True if dry_run is not None else False
track_dry_run(dry_run) == dry_run # "None"

\* The loop of track over self._track(item).
RECURSIVE track_loop(_, _, _, _)
track_loop(g, st, dry_run, log) ==
    LET n == next(g, st, 0)
        log1 == log \o <<"next">> \o [i \in 1..n.commits |-> "commit"]
    IN IF n.stop
       THEN [kind |-> "True", message |-> "", store |-> n.store, log |-> log1]
       ELSE IF ~succeeded(n.value)
            THEN [kind |-> "TransitionValidationError", message |-> n.value.message,
                  store |-> n.store, log |-> log1]
            ELSE IF dry_run
                 THEN [kind |-> "True", message |-> "", store |-> n.store, log |-> log1]
                 ELSE track_loop(n.gen, n.store, dry_run, log1)

\* TrackingState.track
track(o, item, is_item, dry_run, st, korder) ==
    LET v == IF is_item
             THEN [dict |-> item, raised |-> "", built |-> TRUE, item |-> Item(item)]
             ELSE validated_item(o, item, EmptyDict, korder, <<>>)
    IN IF ~v.item.ok
       THEN [kind |-> "TransitionValidationError", message |-> "Could not validate item",
             store |-> st, log |-> <<"validate">>, dict |-> v.dict]
       ELSE LET r == track_loop(Generator(HostTrack(o, v.item, st)), st,
                                track_dry_run(dry_run),
                                IF is_item THEN <<"start">> ELSE <<"validate", "start">>)
            IN [kind |-> r.kind, message |-> r.message, store |-> r.store, log |-> r.log,
                dict |-> v.dict]

\* ------------------------------------------ TrackingStateMachine.transition
\* What a call leaves behind: its outcome (the value returned or the exception
\* raised), the stores, the caller's two mappings, and the trace of its steps.
Ret(c, kind, message) ==
    [kind |-> kind, message |-> message, store |-> c.store,
     from_dict |-> c.from_dict, to_dict |-> c.to_dict, log |-> c.log,
     built |-> c.built, to_item |-> c.to_item, parameters |-> c.parameters]

\* `if not validation.succeeded():` in place of `if validation:`
truthy_only_if_failed(validation) == ~succeeded(validation)

\* `if validation:` on a TransitionValidationResult, which defines neither
\* __nonzero__ nor __len__: every result is truthy.
Truthy(validation) == TRUE

\* for validation in <generator>: if validation: raise TransitionFatalError
RECURSIVE run_to_completion(_, _, _)
run_to_completion(g, st, commits) ==
    LET n == next(g, st, 0)
    IN IF n.stop
       THEN [fatal |-> FALSE, store |-> n.store, commits |-> commits + n.commits]
       ELSE IF Truthy(n.value)
            THEN [fatal |-> TRUE, store |-> n.store, commits |-> commits + n.commits]
            ELSE run_to_completion(n.gen, n.store, commits + n.commits)

\* A gating loop that never halts: the sequence is consumed to its end and only
\* its first result is looked at.
RECURSIVE drain(_, _, _, _, _)
drain(g, st, commits, seen, first) ==
    LET n == next(g, st, 0)
    IN IF n.stop
       THEN [gen |-> n.gen, store |-> n.store, stop |-> ~seen, value |-> first,
             commits |-> commits + n.commits]
       ELSE drain(n.gen, n.store, commits + n.commits, TRUE, IF seen THEN first ELSE n.value)

first_result_no_halt(g, st) == drain(g, st, 0, FALSE, Result(TRUE, "", EmptyDict))

\* for validation in <generator>: ... break  # Halt
\* The generator is advanced to its first result and left there.
first_result(g, st) == next(g, st, 0)

\* The reading of dry_run inverted.
transition_dry_run_inverted(dry_run) == dry_run # "True"

\* transition's reading of its dry_run argument: True if dry_run else False
transition_dry_run(dry_run) == dry_run = "True"

\* The commit pass: resume the from-State's sequence, then the to-State's.
commit_pass(c, transition_g, track_g, dry_run) ==
    IF transition_dry_run(dry_run)
    THEN Ret(c, "True", "")
    ELSE LET f == run_to_completion(transition_g, c.store, 0)
             c1 == [c EXCEPT !.store = f.store,
                             !.log = @ \o <<"resume_from">>
                                       \o [i \in 1..f.commits |-> "commit_from"]
                                       \o (IF f.fatal THEN <<>> ELSE <<"exhausted_from">>)]
         IN IF f.fatal
            THEN Ret(c1, "TransitionFatalError", "Transition from-state encountered fatal error")
            ELSE LET t == run_to_completion(track_g, c1.store, 0)
                     c2 == [c1 EXCEPT !.store = t.store,
                                      !.log = @ \o <<"resume_to">>
                                                \o [i \in 1..t.commits |-> "commit_to"]
                                                \o (IF t.fatal THEN <<>> ELSE <<"exhausted_to">>)]
                 IN IF t.fatal
                    THEN Ret(c2, "TransitionFatalError", "Transition to-state encountered fatal error")
                    ELSE Ret(c2, "True", "")

\* Validate to_item_dict with the captured parameters, then take the first
\* result of the to-State's _track.
gate_to(c, to_state, transition_g, validation_parameters, dry_run, korder, porder) ==
    LET v == validated_item(to_state, c.to_dict, validation_parameters, korder, porder)
        c1 == [c EXCEPT !.to_dict = v.dict, !.parameters = validation_parameters,
                        !.built = v.built,
                        !.to_item = IF v.built THEN v.dict ELSE EmptyDict,
                        !.log = Append(@, "validate_to")]
    IN IF v.raised # ""
       THEN Ret(c1, v.raised, "")
       ELSE IF ~v.item.ok
            THEN Ret(c1, "TransitionValidationError", "Could not validate to")
            ELSE LET n == first_result(Generator(HostTrack(to_state, v.item, c1.store)), c1.store)
                     c2 == [c1 EXCEPT !.store = n.store,
                                      !.log = @ \o <<"call_track", "next_to">>
                                                \o [i \in 1..n.commits |-> "commit_to"]]
                 IN IF ~n.stop /\ ~succeeded(n.value)
                    THEN Ret(c2, "TransitionValidationError", n.value.message)
                    ELSE commit_pass(c2, transition_g, n.gen, dry_run)

\* A missing registry check: unpacking self.transitions.get(name) raises TypeError.
unknown_transition_unchecked(c) == Ret(c, "TypeError", "")

\* if name not in self.transitions: raise TransitionValidationError("Unknown transition: ...")
unknown_transition(c) == Ret(c, "TransitionValidationError", "Unknown transition")

\* Validate from_item_dict, call the from-State's transition method and take
\* its first result.
gate_from(c, from_state, to_state, name, dry_run, korder, porder) ==
    LET v == validated_item(from_state, c.from_dict, EmptyDict, korder, porder)
        c1 == [c EXCEPT !.from_dict = v.dict, !.log = Append(@, "validate_from")]
    IN IF ~v.item.ok
       THEN Ret(c1, "TransitionValidationError", "Could not validate from")
       ELSE LET n == first_result(Generator(HostTransition(from_state, v.item, c1.store)), c1.store)
                c2 == [c1 EXCEPT !.store = n.store,
                                 !.log = @ \o <<"call_from", "next_from">>
                                           \o [i \in 1..n.commits |-> "commit_from"]]
            IN IF ~n.stop /\ ~succeeded(n.value)
               THEN Ret(c2, "TransitionValidationError", n.value.message)
               ELSE gate_to(c2, to_state, n.gen,
                            IF n.stop THEN EmptyDict ELSE n.value.parameters,
                            dry_run, korder, porder)

\* TrackingStateMachine.transition
transition(reg, st, name, from_item_dict, to_item_dict, dry_run, korder, porder) ==
    LET c0 == [store |-> st, from_dict |-> from_item_dict, to_dict |-> to_item_dict,
               log |-> <<>>, built |-> FALSE, to_item |-> EmptyDict,
               parameters |-> EmptyDict]
    IN IF name \notin DOMAIN reg
       THEN unknown_transition(c0)
       ELSE gate_from(c0, reg[name][1], reg[name][2], name, dry_run, korder, porder)

\* --------------------------------------------------- registries (engine)
\* isinstance(state, TrackingState): x1 is a host object that is not a State.
NonStates == {"x1"}

\* TrackingStateMachine.add_state
add_state(sts, state) ==
    IF state \notin HostStates
    THEN [kind |-> "StateValidationError", states |-> sts]
    ELSE [kind |-> "None", states |-> DictUpdate(sts, StateName(state), state)]

\* TrackingStateMachine.state: self.states.get(name, None)
state(sts, name) == IF name \in DOMAIN sts THEN sts[name] ELSE "None"

\* add_transition with hasattr alone, callable() left out.
add_transition_hasattr(sts, reg, name, from_name, to_name) ==
    LET from_state == state(sts, from_name)
        to_state == state(sts, to_name)
    IN IF from_state = "None" \/ to_state = "None"
       THEN [kind |-> "StateValidationError", transitions |-> reg]
       ELSE IF HostAttr(from_state, name) # "missing"
            THEN [kind |-> "None", transitions |-> DictUpdate(reg, name, <<from_state, to_state>>)]
            ELSE [kind |-> "TransitionValidationError", transitions |-> reg]

\* TrackingStateMachine.add_transition
add_transition(sts, reg, name, from_name, to_name) ==
    LET from_state == state(sts, from_name)
        to_state == state(sts, to_name)
    IN IF from_state = "None" \/ to_state = "None"
       THEN [kind |-> "StateValidationError", transitions |-> reg]
       ELSE IF HostAttr(from_state, name) = "method"
            THEN [kind |-> "None", transitions |-> DictUpdate(reg, name, <<from_state, to_state>>)]
            ELSE [kind |-> "TransitionValidationError", transitions |-> reg]

\* TrackingStateMachine.add_action: hasattr(state, name) is all that is asked.
add_action(sts, acts, name, state_name) ==
    LET st == state(sts, state_name)
    IN IF st = "None"
       THEN [kind |-> "StateValidationError", actions |-> acts]
       ELSE IF HostAttr(st, name) # "missing"
            THEN [kind |-> "None", actions |-> DictUpdate(acts, name, st)]
            ELSE [kind |-> "TransitionActionError", actions |-> acts]

\* functools.partial(action, args): the State's attribute, bound to args.
partial(st, name, args) == [state |-> st, name |-> name, args |-> args]

NoPartial == partial("None", "", None)

\* A host operation registered as an action, run once: the State counts the run.
HostAction(o, name, args, rn) == [rn EXCEPT ![o] = @ + 1]

\* action that runs the operation itself: return action(args)
action_eager(acts, rn, name, args) ==
    LET st == IF name \in DOMAIN acts THEN acts[name] ELSE "None"
    IN IF st = "None"
       THEN [kind |-> "TransitionActionError", value |-> NoPartial, ran |-> rn]
       ELSE IF HostAttr(st, name) # "method"
            THEN [kind |-> "TypeError", value |-> NoPartial, ran |-> rn]
            ELSE [kind |-> "partial", value |-> partial(st, name, args),
                  ran |-> HostAction(st, name, args, rn)]

\* TrackingStateMachine.action: functools.partial raises TypeError when the
\* attribute it is given is not callable.
action(acts, rn, name, args) ==
    LET st == IF name \in DOMAIN acts THEN acts[name] ELSE "None"
    IN IF st = "None"
       THEN [kind |-> "TransitionActionError", value |-> NoPartial, ran |-> rn]
       ELSE IF HostAttr(st, name) # "method"
            THEN [kind |-> "TypeError", value |-> NoPartial, ran |-> rn]
            ELSE [kind |-> "partial", value |-> partial(st, name, args), ran |-> rn]

\* ------------------------------------------------------------ the machine
VARIABLES
    states,       \* TrackingStateMachine.states: name -> State object
    transitions,  \* TrackingStateMachine.transitions: name -> <<from, to>>
    store,        \* each host State's tracked item ids
    fromAttrs,    \* the mapping object the caller passes as from_item_dict
    toAttrs,      \* the mapping object the caller passes as to_item_dict
    last,         \* the last call made, what it was given and how it ended
    actions,      \* TrackingStateMachine.actions: name -> State object
    deferred,     \* the deferred call the caller holds, as action returned it
    ran           \* each host State's count of runs of its action operation

vars == <<states, transitions, store, fromAttrs, toAttrs, last, actions, deferred, ran>>

\* What the mapping-level calls leave alone.
regvars == <<actions, deferred, ran>>

\* The caller's inputs.
TransNames == {"ship", "void"}


\* dry_run as given to track (omitted, False, True) and to transition.
DryRuns == {"None", "False", "True"}

TransitionDryRuns == {"False", "True"}

\* Two iteration orders of a mapping's keys, differing in the order of the
\* attributes that may hold placeholders, and both orders of the parameters.
KeyOrders == {<<"id", "a", "b", "p", "q">>, <<"id", "b", "a", "p", "q">>}

ParamOrders == {<<"p", "q">>, <<"q", "p">>}

\* The iteration orders of d that can be told apart: one when d has fewer than two
\* of the keys whose order varies.
OrdersOf(d, orders) ==
    IF Cardinality({IterKeys(d, o) : o \in orders}) > 1 THEN orders
    ELSE {CHOOSE o \in orders : TRUE}

FromMaps ==
    {EmptyDict}
    \cup {[k \in ks |-> Val(i)] : ks \in {{"id"}, {"id", "p"}, {"id", "p", "q"}}, i \in Ids}

\* A to-mapping: a resolved id, and optionally attribute a declared as a
\* placeholder for parameter p (with or without a default), and b as a second
\* placeholder for the same parameter.
Absent == Val(None)

ToMap(i, a, b) ==
    [k \in {"id"} \cup (IF a = Absent THEN {} ELSE {"a"}) \cup (IF b = Absent THEN {} ELSE {"b"})
        |-> CASE k = "id" -> Val(i) [] k = "a" -> a [] OTHER -> b]

ToMaps ==
    {ToMap(i, ab[1], ab[2]) : i \in Ids,
        ab \in {<<Absent, Absent>>,
                <<TransitionParameter("p", None), Absent>>,
                <<TransitionParameter("p", 1), Absent>>,
                <<TransitionParameter("p", None), TransitionParameter("p", None)>>}}

Idle ==
    [op |-> "none", name |-> "", dry |-> "None", is_item |-> FALSE, kind |-> "None",
     message |-> "", log |-> <<>>, store0 |-> [o \in Objs |-> {}],
     from0 |-> EmptyDict, to0 |-> EmptyDict, built |-> FALSE, to_item |-> EmptyDict,
     parameters |-> EmptyDict]

\* TrackingStateMachine.__init__, before the caller has built any mapping.
Init ==
    /\ states = EmptyDict
    /\ transitions = EmptyDict
    /\ store = [o \in Objs |-> {}]
    /\ fromAttrs = EmptyDict
    /\ toAttrs = EmptyDict
    /\ last = Idle
    /\ actions = EmptyDict
    /\ deferred = NoPartial
    /\ ran = [o \in HostStates |-> 0]

\* The caller builds a new from-mapping.
NewFrom(m) ==
    /\ fromAttrs' = m
    /\ last' = Idle
    /\ UNCHANGED <<states, transitions, store, toAttrs>>
    /\ UNCHANGED regvars

\* The caller builds a new to-mapping.
NewTo(m) ==
    /\ toAttrs' = m
    /\ last' = Idle
    /\ UNCHANGED <<states, transitions, store, fromAttrs>>
    /\ UNCHANGED regvars

\* The host's registration phase (states first, then the transition), on a
\* newly constructed machine: two States and the transition "ship" between them.
Setup(f, t) ==
    /\ states = EmptyDict
    /\ f # t
    /\ LET s1 == add_state(states, f).states
           s2 == add_state(s1, t).states
           r == add_transition(s2, transitions, "ship", StateName(f), StateName(t))
       IN /\ states' = s2
          /\ transitions' = r.transitions
          /\ last' = [Idle EXCEPT !.op = "add_transition", !.name = "ship", !.kind = r.kind]
    /\ UNCHANGED <<store, fromAttrs, toAttrs>>
    /\ UNCHANGED regvars

\* state(name).track(mapping-or-item, dry_run) on a registered State; an item
\* instance handed in by the caller is one its item type could be built from.
Track(sname, is_item, dry_run, korder) ==
    /\ state(states, sname) # "None"
    /\ is_item => Predicate("has_id", fromAttrs)
    /\ LET r == track(state(states, sname), fromAttrs, is_item, dry_run, store, korder)
       IN /\ store' = r.store
          /\ fromAttrs' = r.dict
          /\ last' = [Idle EXCEPT !.op = "track", !.name = sname, !.dry = dry_run,
                                  !.is_item = is_item, !.kind = r.kind,
                                  !.message = r.message, !.log = r.log,
                                  !.store0 = store, !.from0 = fromAttrs,
                                  !.to0 = toAttrs, !.to_item = fromAttrs]
    /\ UNCHANGED <<states, transitions, toAttrs>>
    /\ UNCHANGED regvars

Transition(name, dry_run, korder, porder) ==
    LET r == transition(transitions, store, name, fromAttrs, toAttrs, dry_run, korder, porder)
    IN /\ store' = r.store
       /\ fromAttrs' = r.from_dict
       /\ toAttrs' = r.to_dict
       /\ last' = [op |-> "transition", name |-> name, dry |-> dry_run, is_item |-> FALSE,
                   kind |-> r.kind, message |-> r.message, log |-> r.log,
                   store0 |-> store, from0 |-> fromAttrs, to0 |-> toAttrs,
                   built |-> r.built, to_item |-> r.to_item, parameters |-> r.parameters]
       /\ UNCHANGED <<states, transitions>>
       /\ UNCHANGED regvars

Next ==
    \/ \E f \in {o \in Objs : HostAttr(o, "ship") = "method"}, t \in Objs : Setup(f, t)
    \/ \E m \in FromMaps : NewFrom(m)
    \/ \E m \in ToMaps : NewTo(m)
    \/ \E sname \in StateNames, dry_run \in DryRuns, korder \in OrdersOf(fromAttrs, KeyOrders) :
           Track(sname, FALSE, dry_run, korder)
    \/ \E name \in TransNames, dry_run \in TransitionDryRuns, korder \in OrdersOf(toAttrs, KeyOrders),
          porder \in OrdersOf(fromAttrs, ParamOrders) :
           Transition(name, dry_run, korder, porder)

Spec == Init /\ [][Next]_vars

\* ------------------------------------------------ validation of mappings
\* _validated_item and track applied to raw mappings, on States whose item
\* types attach zero, one or two predicates.
ItemStates == {"o1", "o3", "o5", "o6"}

\* Raw mappings: any of the attributes id and a, each a value or a placeholder.
ItemMaps ==
    {[k \in ks |-> IF k = "id" THEN v[1] ELSE v[2]] :
        ks \in SUBSET {"id", "a"},
        v \in ({Val(i) : i \in Ids} \cup {TransitionParameter("p", None)})
              \X {Val(1), TransitionParameter("p", None), TransitionParameter("p", 1)}}

InitItem ==
    /\ fromAttrs \in ItemMaps
    /\ store = [o \in ItemStates |-> {}]
    /\ last = Idle
    /\ states = EmptyDict
    /\ transitions = EmptyDict
    /\ toAttrs = EmptyDict
    /\ actions = EmptyDict
    /\ deferred = NoPartial
    /\ ran = [o \in HostStates |-> 0]

\* state._validated_item(mapping)
Validate(o, korder) ==
    LET v == validated_item(o, fromAttrs, EmptyDict, korder, <<>>)
    IN /\ fromAttrs' = v.dict
       /\ last' = [Idle EXCEPT !.op = "validate", !.name = o, !.from0 = fromAttrs,
                               !.kind = IF v.item.ok THEN "item" ELSE "None",
                               !.built = v.built, !.to_item = v.item.attrs,
                               !.store0 = store]
       /\ UNCHANGED <<states, transitions, store, toAttrs>>
       /\ UNCHANGED regvars

\* state.track(mapping, dry_run)
TrackMapping(o, dry_run, korder) ==
    LET r == track(o, fromAttrs, FALSE, dry_run, store, korder)
    IN /\ store' = r.store
       /\ fromAttrs' = r.dict
       /\ last' = [Idle EXCEPT !.op = "track", !.name = o, !.dry = dry_run,
                               !.kind = r.kind, !.message = r.message, !.log = r.log,
                               !.store0 = store, !.from0 = fromAttrs]
       /\ UNCHANGED <<states, transitions, toAttrs>>
       /\ UNCHANGED regvars

NextItem ==
    \/ \E o \in ItemStates, korder \in OrdersOf(fromAttrs, KeyOrders) : Validate(o, korder)
    \/ \E o \in ItemStates, dry_run \in DryRuns, korder \in OrdersOf(fromAttrs, KeyOrders) :
           TrackMapping(o, dry_run, korder)

SpecItem == InitItem /\ [][NextItem]_vars

\* ------------------------------------------------- the registration calls
\* The registry calls taken one at a time, in any order, on the States pending
\* (o1, and o4 of the same name) and shipped (o2).
RegObjs == {"o1", "o2", "o4"}

RegTransNames == {"ship", "name"}

ActionNames == {"restock", "name"}

\* A deferred call is invoked at most MaxCalls times on each State.
MaxCalls == 2

\* No call made yet; `added` collects the names add_action has accepted.
RegIdle ==
    [op |-> "none", name |-> "", from |-> "", to |-> "", kind |-> "None",
     states0 |-> EmptyDict, transitions0 |-> EmptyDict, actions0 |-> EmptyDict,
     ran0 |-> [o \in HostStates |-> 0], deferred0 |-> NoPartial, added |-> {},
     args |-> None]

InitReg ==
    /\ states = EmptyDict
    /\ transitions = EmptyDict
    /\ actions = EmptyDict
    /\ deferred = NoPartial
    /\ ran = [o \in HostStates |-> 0]
    /\ store = [o \in Objs |-> {}]
    /\ fromAttrs = EmptyDict
    /\ toAttrs = EmptyDict
    /\ last = RegIdle

\* The record of a registry call, taken before the call changes anything.
RegCall(op, name, from, to, kind) ==
    [op |-> op, name |-> name, from |-> from, to |-> to, kind |-> kind,
     states0 |-> states, transitions0 |-> transitions, actions0 |-> actions,
     ran0 |-> ran, deferred0 |-> deferred, added |-> last.added, args |-> None]

AddState(o) ==
    LET r == add_state(states, o)
    IN /\ states' = r.states
       /\ last' = RegCall("add_state", o, "", "", r.kind)
       /\ UNCHANGED <<transitions, actions, deferred, ran, store, fromAttrs, toAttrs>>

AddTransition(name, from_name, to_name) ==
    LET r == add_transition(states, transitions, name, from_name, to_name)
    IN /\ transitions' = r.transitions
       /\ last' = RegCall("add_transition", name, from_name, to_name, r.kind)
       /\ UNCHANGED <<states, actions, deferred, ran, store, fromAttrs, toAttrs>>

AddAction(name, state_name) ==
    LET r == add_action(states, actions, name, state_name)
    IN /\ actions' = r.actions
       /\ last' = [RegCall("add_action", name, state_name, "", r.kind) EXCEPT
                      !.added = IF r.kind = "None" THEN @ \cup {name} ELSE @]
       /\ UNCHANGED <<states, transitions, deferred, ran, store, fromAttrs, toAttrs>>

\* action(name, args): the caller keeps what is returned; a call that raises
\* leaves the caller with what it held.
Action(name, args) ==
    LET r == action(actions, ran, name, args)
    IN /\ deferred' = IF r.kind = "partial" THEN r.value ELSE deferred
       /\ ran' = r.ran
       /\ last' = [RegCall("action", name, "", "", r.kind) EXCEPT !.args = args]
       /\ UNCHANGED <<states, transitions, actions, store, fromAttrs, toAttrs>>

\* The caller invokes the deferred call it holds.
Invoke ==
    /\ deferred # NoPartial
    /\ ran[deferred.state] < MaxCalls
    /\ ran' = HostAction(deferred.state, deferred.name, deferred.args, ran)
    /\ last' = RegCall("invoke", deferred.name, "", "", "None")
    /\ UNCHANGED <<states, transitions, actions, deferred, store, fromAttrs, toAttrs>>

NextReg ==
    \/ \E o \in RegObjs \cup NonStates : AddState(o)
    \/ \E name \in RegTransNames, from_name \in StateNames, to_name \in StateNames :
           AddTransition(name, from_name, to_name)
    \/ \E name \in ActionNames, state_name \in StateNames : AddAction(name, state_name)
    \/ \E name \in ActionNames, args \in Ids : Action(name, args)
    \/ Invoke

SpecReg == InitReg /\ [][NextReg]_vars

\* ------------------------------------------------------------ properties
\* The steps of a transition that passes both gates, and of its commit pass.
GateLog == <<"validate_from", "call_from", "next_from", "validate_to", "call_track", "next_to">>

CommitLog ==
    <<"resume_from", "commit_from", "exhausted_from", "resume_to", "commit_to", "exhausted_to">>

Events(log) == {log[i] : i \in DOMAIN log}

CommitEvents == {"resume_from", "commit_from", "exhausted_from", "resume_to", "commit_to",
                 "exhausted_to", "commit"}

IsTransition == last.op = "transition"

Registered == IsTransition /\ last.name \in DOMAIN transitions

FromState == transitions[last.name][1]

ToState == transitions[last.name][2]

\* Both mappings were validated into items and both first results succeeded.
GatesPassed ==
    /\ Registered
    /\ validate(item_type(FromState), last.from0)
    /\ ItemId(Item(last.from0)) \in last.store0[FromState]
    /\ last.built
    /\ validate(item_type(ToState), last.to_item)
    /\ ItemId(Item(last.to_item)) \notin last.store0[ToState]

\* C1: a dry-run transition whose mappings pass every gate returns True, and a
\* dry-run transition that returns True has left every store as it was and has
\* taken exactly the first result of each sequence, resuming neither.
C1_DryRunLeavesStores ==
    (IsTransition /\ last.dry = "True") =>
        /\ GatesPassed => last.kind = "True"
        /\ last.kind = "True" => (store = last.store0 /\ last.log = GateLog)

C1_Witness ==
    /\ IsTransition /\ last.dry = "True" /\ last.kind = "True" /\ GatesPassed
    /\ last.store0[FromState] # {}
    /\ last.parameters # EmptyDict

\* C2: a non-dry-run transition that returns True has resumed the from-State's
\* sequence to exhaustion once and then the to-State's sequence to exhaustion
\* once: one removal on the from side, then one insertion on the to side.
C2_CommitsOnceEachInOrder ==
    (IsTransition /\ last.dry # "True" /\ last.kind = "True") =>
        /\ last.log = GateLog \o CommitLog
        /\ store = [o \in Objs |->
                      IF o = ToState THEN last.store0[o] \cup {ItemId(Item(last.to_item))}
                      ELSE IF o = FromState THEN last.store0[o] \ {ItemId(Item(last.from0))}
                      ELSE last.store0[o]]

C2_Witness ==
    /\ IsTransition /\ last.dry # "True" /\ last.kind = "True"
    /\ store[FromState] # last.store0[FromState]
    /\ store[ToState] # last.store0[ToState]

\* C3: a transition that fails with anything but TransitionFatalError has left
\* every store as it was, and no sequence has been resumed or has committed.
C3_FailureLeavesStores ==
    (IsTransition /\ last.kind \notin {"True", "TransitionFatalError"}) =>
        /\ store = last.store0
        /\ Events(last.log) \cap CommitEvents = {}

\* The to-State's first track result is unsuccessful, after the from side passed.
C3_Witness ==
    /\ IsTransition /\ last.kind = "TransitionValidationError"
    /\ last.message = "already tracked"
    /\ last.store0[FromState] # {}
    /\ store = last.store0

\* C4: when a dry-run transition has returned True, the same call made again at
\* once with the same two mapping objects and dry_run=False returns True as well
\* (stated for States whose sequences yield nothing after the gating result).
C4_PreviewAgreesWithCommit ==
    [][(/\ IsTransition /\ last.dry = "True" /\ last.kind = "True"
        /\ Residual(FromState) = 0 /\ Residual(ToState) = 0
        /\ last'.op = "transition" /\ last'.dry = "False" /\ last'.name = last.name)
       => last'.kind = "True"]_vars

\* C5: every attribute of to_item_dict that is a placeholder for a parameter the
\* from-State supplied holds the supplied value in the to-item as constructed.
C5_EveryPlaceholderFilled ==
    (IsTransition /\ last.built) =>
        \A k \in DOMAIN last.to0 :
            (IsTransitionParameter(last.to0[k]) /\ last.to0[k].name \in DOMAIN last.parameters)
                => last.to_item[k] = Val(last.parameters[last.to0[k].name])

\* to_item_dict, as passed, holds a placeholder without default for a parameter
\* the from-State's first result did not supply.
HasUnfilledPlaceholder ==
    \E k \in DOMAIN last.to0 :
        /\ IsTransitionParameter(last.to0[k])
        /\ last.to0[k].name \notin DOMAIN last.parameters
        /\ last.to0[k].value = None

\* C6: a transition that reaches the validation of a to_item_dict holding an
\* unfilled placeholder without default fails that validation with
\* TransitionValidationError, whatever the to-State's item type.
C6_UnfilledPlaceholderFails ==
    (IsTransition /\ "validate_to" \in Events(last.log) /\ HasUnfilledPlaceholder) =>
        (last.kind = "TransitionValidationError" /\ last.message = "Could not validate to")

TrackState == state(states, last.name)

TrackValid == validate(item_type(TrackState), last.from0)

\* C7: track with dry_run=False, on a mapping that validates and a sequence whose
\* results all succeed, returns True with the item inserted into the store.
C7_TrackFalseCommits ==
    (/\ last.op = "track" /\ last.dry = "False" /\ TrackValid
     /\ ItemId(Item(last.from0)) \notin last.store0[TrackState]) =>
        /\ last.kind = "True"
        /\ store = [last.store0 EXCEPT ![TrackState] = @ \cup {ItemId(Item(last.from0))}]

\* C8: track changes a store only as a call without dry run that returns True; a
\* mapping that fails validation raises TransitionValidationError before the
\* sequence is started; an unsuccessful first result raises it with that result's
\* message and nothing committed; with dry_run=True the call returns True after
\* the first successful result and resumes nothing.
C8_TrackMutatesOnlyOnCommit ==
    last.op = "track" =>
        /\ store # last.store0 => (last.dry # "True" /\ last.kind = "True")
        /\ ~TrackValid =>
              /\ last.kind = "TransitionValidationError"
              /\ last.log = <<"validate">>
              /\ store = last.store0
        /\ (TrackValid /\ ItemId(Item(last.from0)) \in last.store0[TrackState]) =>
              /\ last.kind = "TransitionValidationError"
              /\ last.message = "already tracked"
              /\ store = last.store0
              /\ "commit" \notin Events(last.log)
        /\ (TrackValid /\ ItemId(Item(last.from0)) \notin last.store0[TrackState]
            /\ last.dry = "True") =>
              /\ last.kind = "True"
              /\ last.log = <<"validate", "start", "next">>
              /\ store = last.store0

C8_Witness ==
    /\ last.op = "track" /\ last.dry = "True" /\ last.kind = "True"
    /\ TrackValid
    /\ \E o \in Objs : last.store0[o] # {}

\* C9: with ship registered from pending to shipped, a transition without dry run
\* on a from-mapping that validates and is tracked in pending and a to-mapping
\* that validates and is not tracked in shipped returns True, after which shipped
\* holds one item more and pending one item less.
C9_ShipMovesOneItem ==
    (/\ IsTransition /\ last.name = "ship" /\ Registered /\ last.dry # "True"
     /\ StateName(FromState) = "pending" /\ StateName(ToState) = "shipped"
     /\ validate(item_type(FromState), last.from0)
     /\ ItemId(Item(last.from0)) \in last.store0[FromState]
     /\ validate(item_type(ToState), last.to0)
     /\ ItemId(Item(last.to0)) \notin last.store0[ToState]) =>
        /\ last.kind = "True"
        /\ quantity(ToState, store) = quantity(ToState, last.store0) + 1
        /\ quantity(FromState, store) = quantity(FromState, last.store0) - 1

\* C10 as stated: a transition whose name is not registered fails with an error
\* of kind UnknownTransition.
C10_UnknownTransitionKind ==
    (IsTransition /\ last.name \notin DOMAIN transitions) => last.kind = "UnknownTransition"

\* C10: a transition whose name is not registered raises
\* TransitionValidationError("Unknown transition: ...") before anything else is
\* done: no mapping is validated or changed, no sequence started, no store changed.
C10_UnknownTransitionFails ==
    (IsTransition /\ last.name \notin DOMAIN transitions) =>
        /\ last.kind = "TransitionValidationError"
        /\ last.message = "Unknown transition"
        /\ last.log = <<>>
        /\ store = last.store0
        /\ fromAttrs = last.from0
        /\ toAttrs = last.to0

C10_Witness ==
    /\ IsTransition /\ last.name \notin DOMAIN transitions
    /\ last.kind = "TransitionValidationError"
    /\ \E o \in Objs : store[o] # {}
    /\ \E k \in DOMAIN toAttrs : IsTransitionParameter(toAttrs[k])

\* The two States an add_transition call named, as the registry held them.
RegFrom == state(last.states0, last.from)

RegTo == state(last.states0, last.to)

\* C11: add_transition fails with StateValidationError when either state name
\* is not registered, with TransitionValidationError when both are registered
\* but the from-State has no callable attribute of that name, and leaves the
\* transition registry as it was in both cases; only otherwise does it bind the
\* name to the pair (from-State, to-State).
C11_AddTransitionChecks ==
    last.op = "add_transition" =>
        /\ (RegFrom = "None" \/ RegTo = "None") =>
              (last.kind = "StateValidationError" /\ transitions = last.transitions0)
        /\ (RegFrom # "None" /\ RegTo # "None" /\ HostAttr(RegFrom, last.name) # "method") =>
              (last.kind = "TransitionValidationError" /\ transitions = last.transitions0)
        /\ (RegFrom # "None" /\ RegTo # "None" /\ HostAttr(RegFrom, last.name) = "method") =>
              /\ last.kind = "None"
              /\ transitions = DictUpdate(last.transitions0, last.name, <<RegFrom, RegTo>>)
        /\ transitions # last.transitions0 =>
              (RegFrom # "None" /\ RegTo # "None" /\ HostAttr(RegFrom, last.name) = "method")

\* add_transition refused for an attribute that is not callable, on a registry
\* that already binds a transition.
C11_Witness ==
    /\ last.op = "add_transition" /\ last.kind = "TransitionValidationError"
    /\ RegFrom # "None" /\ RegTo # "None"
    /\ HostAttr(RegFrom, last.name) = "attr"
    /\ transitions # EmptyDict

\* C12: action(name, args) returns a deferred call exactly when an earlier
\* add_action(name, ...) was accepted and otherwise fails with
\* TransitionActionError; add_action on a registered State that has no attribute
\* of that name fails with TransitionActionError and leaves the action registry
\* as it was.
C12_ActionIffAdded ==
    /\ last.op = "action" =>
          IF last.name \in last.added THEN last.kind = "partial"
          ELSE last.kind = "TransitionActionError"
    /\ (last.op = "add_action" /\ RegFrom # "None" /\ HostAttr(RegFrom, last.name) = "missing") =>
          (last.kind = "TransitionActionError" /\ actions = last.actions0)

\* C13: after any sequence of registry calls every name of the transition
\* registry is bound to a pair whose from-State has a callable attribute of that
\* name, and every name of the action registry is bound to a State that has an
\* operation (a callable attribute) of that name.
C13_RegistriesBindOperations ==
    /\ \A n \in DOMAIN transitions : HostAttr(transitions[n][1], n) = "method"
    /\ \A n \in DOMAIN actions : HostAttr(actions[n], n) = "method"

\* C15: action does not run the State's operation: it returns a deferred call
\* of the bound State's operation holding args, and leaves every run count as
\* it was; the operation runs when the caller invokes the deferred call, once
\* per invocation, and no other call runs it.
C15_ActionIsDeferred ==
    /\ last.op = "action" =>
          /\ ran = last.ran0
          /\ last.kind = "partial" =>
                deferred = partial(last.actions0[last.name], last.name, last.args)
          /\ last.kind # "partial" => deferred = last.deferred0
    /\ last.op = "invoke" =>
          ran = [last.ran0 EXCEPT ![last.deferred0.state] = @ + 1]
    /\ last.op \notin {"none", "invoke"} => ran = last.ran0

\* The deferred call of shipped's restock, invoked MaxCalls times.
C15_Witness ==
    /\ last.op = "invoke"
    /\ ran[deferred.state] = MaxCalls
    /\ deferred = partial("o2", "restock", MaxId)

\* C20: after any sequence of registry calls, the States bound in the
\* transition registry and in the action registry are the States the states
\* registry holds under their names, also after add_state has been called with
\* a State whose name was already registered.
C20_BoundStatesAreRegistered ==
    /\ \A n \in DOMAIN transitions :
          /\ state(states, StateName(transitions[n][1])) = transitions[n][1]
          /\ state(states, StateName(transitions[n][2])) = transitions[n][2]
    /\ \A n \in DOMAIN actions : state(states, StateName(actions[n])) = actions[n]

\* Every predicate the State's item type attaches is true of the mapping.
AllPredicates(o, m) == \A i \in 1..Len(item_type(o)) : Predicate(item_type(o)[i], m)

\* C14: validating a raw mapping into a State's item type returns an item, built
\* from that mapping, exactly when every attached predicate is true of it (always,
\* when none is attached) and the failure value when one is false; track on a
\* mapping starts the track sequence only for a mapping of which every predicate
\* is true, and otherwise raises TransitionValidationError with no store changed.
C14_ItemIffAllPredicates ==
    /\ last.op = "validate" =>
          /\ (last.kind = "item") <=> AllPredicates(last.name, last.from0)
          /\ last.kind = "item" => last.to_item = last.from0
          /\ ~AllPredicates(last.name, last.from0) => last.kind = "None"
    /\ last.op = "track" =>
          /\ "start" \in Events(last.log) <=> AllPredicates(last.name, last.from0)
          /\ ~AllPredicates(last.name, last.from0) =>
                /\ last.kind = "TransitionValidationError"
                /\ last.message = "Could not validate item"
                /\ store = last.store0

\* A mapping that passes the first of two predicates and fails the second.
C14_Witness ==
    /\ last.op = "validate" /\ last.name = "o3" /\ last.kind = "None"
    /\ Predicate("has_id", last.from0)
    /\ ~Predicate("resolved", last.from0)

IsPrefix(a, b) == Len(a) <= Len(b) /\ SubSeq(b, 1, Len(a)) = a

FromValid == validate(item_type(FromState), last.from0)

\* The from-State's first result is successful: the item is tracked there.
FromFirstSucceeded == FromValid /\ ItemId(Item(last.from0)) \in last.store0[FromState]

\* C16: the steps of a transition run in a fixed order and each is a gate: the
\* from-State's method is called only for a from-item that validated, the to-item
\* is validated only after the first from-side result succeeded, the to-State's
\* track sequence is started only for a to-item that validated, and a sequence is
\* resumed only after both first results succeeded. When the first from-side
\* result is unsuccessful the call raises TransitionValidationError with that
\* result's message and nothing of the to side has been touched.
C16_GatesInOrder ==
    Registered =>
        /\ IsPrefix(last.log, GateLog) \/ IsPrefix(GateLog, last.log)
        /\ "call_from" \in Events(last.log) => FromValid
        /\ "validate_to" \in Events(last.log) => FromFirstSucceeded
        /\ "call_track" \in Events(last.log) =>
              (last.built /\ validate(item_type(ToState), last.to_item))
        /\ Events(last.log) \cap CommitEvents # {} => (GatesPassed /\ last.dry # "True")
        /\ (FromValid /\ ~FromFirstSucceeded) =>
              /\ last.kind = "TransitionValidationError"
              /\ last.message = "not tracked"
              /\ last.log = <<"validate_from", "call_from", "next_from">>
              /\ store = last.store0
              /\ toAttrs = last.to0

\* The first from-side result is unsuccessful while the to-State holds an item
\* and the to-mapping a placeholder.
C16_Witness ==
    /\ Registered /\ FromValid /\ ~FromFirstSucceeded
    /\ last.kind = "TransitionValidationError"
    /\ store[ToState] # {}
    /\ \E k \in DOMAIN toAttrs : IsTransitionParameter(toAttrs[k])

Fatal == last.kind = "TransitionFatalError"

\* C17: in the commit pass of a transition without dry run, a sequence that
\* yields a further result after its gating result, successful or not, ends the
\* call with TransitionFatalError; a resumed sequence runs to exhaustion or the
\* call ends with TransitionFatalError; and when the from side raises it the
\* to-State's sequence is not resumed and the to-State's store is as it was.
C17_FurtherResultIsFatal ==
    (Registered /\ GatesPassed /\ last.dry # "True") =>
        /\ (Residual(FromState) > 0 \/ Residual(ToState) > 0) <=> Fatal
        /\ "resume_from" \in Events(last.log)
        /\ "exhausted_from" \in Events(last.log) \/ Fatal
        /\ "resume_to" \in Events(last.log) => ("exhausted_to" \in Events(last.log) \/ Fatal)
        /\ Residual(FromState) > 0 =>
              /\ last.message = "Transition from-state encountered fatal error"
              /\ "resume_to" \notin Events(last.log)
              /\ store[ToState] = last.store0[ToState]

\* The to-State's sequence yields a further (successful) result after the
\* from-State's sequence has run to exhaustion and removed its item.
C17_Witness ==
    /\ Registered /\ GatesPassed /\ last.dry # "True" /\ Fatal
    /\ Residual(FromState) = 0 /\ Residual(ToState) > 0
    /\ store[FromState] # last.store0[FromState]
    /\ store[ToState] = last.store0[ToState]

\* The from-State's first result supplied a parameter that no placeholder of
\* to_item_dict, as passed, declares.
HasUndeclaredParameter ==
    \E n \in DOMAIN last.parameters :
        \A k \in DOMAIN last.to0 :
            ~(IsTransitionParameter(last.to0[k]) /\ last.to0[k].name = n)

\* C18: a parameter supplied by the from-State that no placeholder of
\* to_item_dict declares is ignored: to_item_dict is validated as given, and the
\* call returns True or raises TransitionValidationError or TransitionFatalError.
C18_UndeclaredParameterIgnored ==
    (Registered /\ "validate_to" \in Events(last.log) /\ HasUndeclaredParameter) =>
        /\ last.kind \in {"True", "TransitionValidationError", "TransitionFatalError"}
        /\ last.built /\ last.to_item = last.to0

\* C19: transition and track leave the caller's mappings as they were: after the
\* call from_item_dict and to_item_dict hold the keys and values they held before.
C19_MappingsUntouched ==
    last.op \in {"transition", "track"} =>
        (fromAttrs = last.from0 /\ toAttrs = last.to0)

====
